---- MODULE Spec2Model ----
(***************************************************************************)
(* A model of the HTML tag matcher of the editor (src/editor_window.py):   *)
(* the '<[^>]+>' tokenizer, the selection of the tag under the cursor and  *)
(* the forward / backward partner scans, as run by the cursor-position     *)
(* handler.  Text is a sequence of one-character strings; offsets are the  *)
(* 0-based offsets of Python's re.Match (start inclusive, end exclusive).  *)
(*                                                                         *)
(* And a model of its code folding: the CodeFoldingManager of the second   *)
(* definition in the file (the one Python keeps), with the functions       *)
(* written for it (find_fold_end, fold_block, unfold_block,                *)
(* is_block_folded, ...) read as its methods, and the editor commands      *)
(* fold_level, fold_all and unfold_all.  A document is a sequence of       *)
(* lines; line numbers are the 0-based block numbers of Qt.                *)
(***************************************************************************)
EXTENDS Integers, Sequences, FiniteSets, TLC

VARIABLES text, cursor_pos, matches, current_tag, matching_tag,
          pair_highlighted, error_logged, ran

\* the folding state of one editor: its lines, the visibility of each block,
\* the manager's folded_regions dictionary, whether its update_timer runs,
\* whether update_fold_regions has run, the last call with what it returned,
\* and the visibility before the fold_block call under way
VARIABLES doc, visible, folded_regions, timer_active, scanned, last_call,
          pre_fold

\* the edit events of the burst under way (counted up to MaxBurst) and the
\* runs of update_fold_regions since the last edit event
VARIABLES edits_in_burst, rescans_since_edit

\* the window's bookmarks dictionary, the current editor's file, number of
\* lines and cursor line, the (file, line) pairs whose last operation added a
\* bookmark, the last bookmark call, and the dictionary before the first of
\* the consecutive toggle_bookmark calls at the cursor, with their number
VARIABLES bookmarks, file_path, line_count, current_line, last_added,
          bm_call, toggle_base, toggles

\* the file-system watcher: the two pending sets and their debounce timers,
\* the position of _handle_pending_file_changes in its loop, what happened
\* to each path since it was last queued, and the last watcher step
VARIABLES pending_dir_changes, pending_file_changes, dir_change_timer,
          file_change_timer, file_iter, change_state, fs_call

tagVars == <<text, cursor_pos, matches, current_tag, matching_tag,
             pair_highlighted, error_logged, ran>>

bookmarkVars == <<bookmarks, file_path, line_count, current_line, last_added,
                  bm_call, toggle_base, toggles>>

watcherVars == <<pending_dir_changes, pending_file_changes, dir_change_timer,
                 file_change_timer, file_iter, change_state, fs_call>>

foldVars == <<doc, visible, folded_regions, timer_active, scanned, last_call,
              pre_fold, edits_in_burst, rescans_since_edit>>

vars == <<text, cursor_pos, matches, current_tag, matching_tag,
          pair_highlighted, error_logged, ran,
          doc, visible, folded_regions, timer_active, scanned, last_call,
          pre_fold, edits_in_burst, rescans_since_edit,
          bookmarks, file_path, line_count, current_line, last_added,
          bm_call, toggle_base, toggles,
          pending_dir_changes, pending_file_changes, dir_change_timer,
          file_change_timer, file_iter, change_state, fs_call>>

----------------------------------------------------------------------------
(* Bounds of the explored inputs.                                          *)

\* every string over Chars of at most MaxChars characters is a document
MaxChars == 6

\* every concatenation of at most MaxTags pieces of TagPieces is a document
MaxTags == 4

Chars == {"<", ">", "/", "p"}

\* each piece is a tag followed by one character of text
TagPieces ==
    { <<"<", "p", ">", "x">>,
      <<"<", "/", "p", ">", "x">>,
      <<"<", "p", "p", ">", "x">>,
      <<"<", "/", "p", "p", ">", "x">>,
      <<"<", "p", "/", ">", "x">>,
      <<"<", "/", "p", "/", ">", "x">> }

\* <div><p>Hello</p></div>
Scenario1 ==
    <<"<", "d", "i", "v", ">", "<", "p", ">", "H", "e", "l", "l", "o",
      "<", "/", "p", ">", "<", "/", "d", "i", "v", ">">>

\* <ul><li>A</li><li>B</li></ul>
Scenario2 ==
    <<"<", "u", "l", ">", "<", "l", "i", ">", "A", "<", "/", "l", "i", ">",
      "<", "l", "i", ">", "B", "<", "/", "l", "i", ">", "<", "/", "u", "l", ">">>

\* <img src="x"/>
Scenario3 ==
    <<"<", "i", "m", "g", " ", "s", "r", "c", "=", "\"", "x", "\"", "/", ">">>

\* <a href="x">y</a>
Scenario4 ==
    <<"<", "a", " ", "h", "r", "e", "f", "=", "\"", "x", "\"", ">", "y",
      "<", "/", "a", ">">>

\* <br>x</br>
Scenario5 ==
    <<"<", "b", "r", ">", "x", "<", "/", "b", "r", ">">>

\* <p></p>
Scenario6 ==
    <<"<", "p", ">", "<", "/", "p", ">">>

RECURSIVE Strings(_)
Strings(n) ==
    IF n = 0 THEN { <<>> }
    ELSE LET shorter == Strings(n - 1)
         IN  shorter \cup { Append(s, c) : s \in { t \in shorter : Len(t) = n - 1 }, c \in Chars }

RECURSIVE Concats(_)
Concats(n) ==
    IF n = 0 THEN { <<>> }
    ELSE LET fewer == Concats(n - 1)
         IN  fewer \cup { s \o p : s \in fewer, p \in TagPieces }

Documents ==
    Strings(MaxChars) \cup Concats(MaxTags)
        \cup {Scenario1, Scenario2, Scenario3, Scenario4, Scenario5, Scenario6}

----------------------------------------------------------------------------
(* Strings.                                                                *)

StartsWith(s, prefix) ==
    /\ Len(prefix) <= Len(s)
    /\ SubSeq(s, 1, Len(prefix)) = prefix

EndsWith(s, suffix) ==
    /\ Len(suffix) <= Len(s)
    /\ SubSeq(s, Len(s) - Len(suffix) + 1, Len(s)) = suffix

\* the characters str.split() treats as separators
IsSpace(c) == c \in {" ", "\t", "\n"}

\* s.split()[0]: the first whitespace-delimited word of s; <<"IndexError">>
\* stands for the exception raised when s holds no word
SplitFirst(s) ==
    LET words == { i \in 1..Len(s) : ~IsSpace(s[i]) }
    IN  IF words = {} THEN <<"IndexError">>
        ELSE LET first == CHOOSE i \in words : \A j \in words : i <= j
                 stops == { i \in first..Len(s) : IsSpace(s[i]) }
                 last  == IF stops = {} THEN Len(s)
                          ELSE (CHOOSE i \in stops : \A j \in stops : i <= j) - 1
             IN  SubSeq(s, first, last)

\* s.rstrip('>')
RECURSIVE RStripGt(_)
RStripGt(s) ==
    IF s # <<>> /\ s[Len(s)] = ">" THEN RStripGt(SubSeq(s, 1, Len(s) - 1)) ELSE s

----------------------------------------------------------------------------
(* re.finditer(r'<[^>]+>', text)                                            *)

None == [start |-> -1, end |-> -1]

\* match.group()
group(txt, match) == SubSeq(txt, match.start + 1, match.end)

\* the 1-based index of the '>' that ends a match of '<[^>]+>' beginning at
\* index i, or 0 when the pattern does not match there
MatchAtGreedy(txt, i) ==
    IF txt[i] # "<" \/ i + 1 > Len(txt) \/ txt[i + 1] = ">" THEN 0
    ELSE LET gts == { j \in (i + 2)..Len(txt) : txt[j] = ">" }
         IN  IF gts = {} THEN 0
             ELSE CHOOSE j \in gts : \A k \in gts : k <= j

MatchAt(txt, i) ==
    IF txt[i] # "<" \/ i + 1 > Len(txt) \/ txt[i + 1] = ">" THEN 0
    ELSE LET gts == { j \in (i + 2)..Len(txt) : txt[j] = ">" }
         IN  IF gts = {} THEN 0
             ELSE CHOOSE j \in gts : \A k \in gts : j <= k

RECURSIVE finditer_from(_, _)
finditer_from(txt, i) ==
    IF i > Len(txt) THEN <<>>
    ELSE LET j == MatchAt(txt, i)
         IN  IF j = 0 THEN finditer_from(txt, i + 1)
             ELSE <<[start |-> i - 1, end |-> j]>> \o finditer_from(txt, j + 1)

finditer(txt) == finditer_from(txt, 1)

----------------------------------------------------------------------------
(* highlight_matching_tags and its two scans                                *)

\* the test that selects the tag under the cursor
CursorInMatchExclusive(match, current_pos) ==
    match.start <= current_pos /\ current_pos < match.end

CursorInMatch(match, current_pos) ==
    match.start <= current_pos /\ current_pos <= match.end

\* for match in matches: if ...: current_tag = match; break
FindCurrentTag(ms, current_pos) ==
    LET hits == { i \in 1..Len(ms) : CursorInMatch(ms[i], current_pos) }
    IN  IF hits = {} THEN None
        ELSE ms[CHOOSE i \in hits : \A j \in hits : i <= j]

\* tag_content.startswith(f'<{tag_name}') and not tag_content.endswith('/>')
IsOpeningTagOf(tag_content, tag_name) ==
    /\ StartsWith(tag_content, <<"<">> \o tag_name)
    /\ ~EndsWith(tag_content, <<"/", ">">>)

\* find_opening_tag: tag_content.startswith('</') and tag_content[2:-1] == tag_name
IsClosingBefore(tag_content, tag_name) ==
    /\ StartsWith(tag_content, <<"<", "/">>)
    /\ SubSeq(tag_content, 3, Len(tag_content) - 1) = tag_name

\* find_closing_tag: tag_content == f'</{tag_name}>'
IsClosingAfterAnyName(tag_content, tag_name) ==
    StartsWith(tag_content, <<"<", "/">>)

IsClosingAfter(tag_content, tag_name) ==
    tag_content = <<"<", "/">> \o tag_name \o <<">">>

Pop(stack) == SubSeq(stack, 1, Len(stack) - 1)

\* the loop of find_opening_tag over reversed(matches), i running down
RECURSIVE opening_scan(_, _, _, _, _, _)
opening_scan(txt, ms, tag_name, current_pos, i, stack) ==
    IF i < 1 THEN None
    ELSE LET match == ms[i]
             tag_content == group(txt, match)
         IN  IF match.end >= current_pos
                 THEN opening_scan(txt, ms, tag_name, current_pos, i - 1, stack)
             ELSE IF IsClosingBefore(tag_content, tag_name)
                 THEN opening_scan(txt, ms, tag_name, current_pos, i - 1,
                                   Append(stack, match))
             ELSE IF IsOpeningTagOf(tag_content, tag_name)
                 THEN IF stack # <<>>
                      THEN opening_scan(txt, ms, tag_name, current_pos, i - 1,
                                        Pop(stack))
                      ELSE match
             ELSE opening_scan(txt, ms, tag_name, current_pos, i - 1, stack)

find_opening_tag(txt, ms, tag_name, current_pos) ==
    opening_scan(txt, ms, tag_name, current_pos, Len(ms), <<>>)

\* the loop of find_closing_tag over matches, i running up
RECURSIVE closing_scan(_, _, _, _, _, _)
closing_scan(txt, ms, tag_name, current_pos, i, stack) ==
    IF i > Len(ms) THEN None
    ELSE LET match == ms[i]
             tag_content == group(txt, match)
         IN  IF match.start <= current_pos
                 THEN closing_scan(txt, ms, tag_name, current_pos, i + 1, stack)
             ELSE IF IsOpeningTagOf(tag_content, tag_name)
                 THEN closing_scan(txt, ms, tag_name, current_pos, i + 1,
                                   Append(stack, match))
             ELSE IF IsClosingAfter(tag_content, tag_name)
                 THEN IF stack # <<>>
                      THEN closing_scan(txt, ms, tag_name, current_pos, i + 1,
                                        Pop(stack))
                      ELSE match
             ELSE closing_scan(txt, ms, tag_name, current_pos, i + 1, stack)

\* the scan run over reversed(matches), as find_opening_tag iterates
find_closing_tag_reversed(txt, ms, tag_name, current_pos) ==
    closing_scan(txt, [k \in 1..Len(ms) |-> ms[Len(ms) + 1 - k]], tag_name,
                 current_pos, 1, <<>>)

\* the scan without its stack: the first closing tag of the name is returned
find_closing_tag_no_stack(txt, ms, tag_name, current_pos) ==
    LET closers == { k \in 1..Len(ms) :
                       /\ ms[k].start > current_pos
                       /\ ~IsOpeningTagOf(group(txt, ms[k]), tag_name)
                       /\ IsClosingAfter(group(txt, ms[k]), tag_name) }
    IN  IF closers = {} THEN None
        ELSE ms[CHOOSE k \in closers : \A j \in closers : k <= j]

find_closing_tag(txt, ms, tag_name, current_pos) ==
    closing_scan(txt, ms, tag_name, current_pos, 1, <<>>)

\* the branch of highlight_matching_tags taken for the tag under the cursor
IsClosingTag(tag_content) == StartsWith(tag_content, <<"<", "/">>)

IsSelfClosingNever(tag_content) == EndsWith(tag_content, <<"/">>)

IsSelfClosing(tag_content) == EndsWith(tag_content, <<"/", ">">>)

\* tag_content[2:-1]
ClosingTagName(tag_content) == SubSeq(tag_content, 3, Len(tag_content) - 1)

\* tag_content[1:].split()[0].rstrip('>')
OpeningTagName(tag_content) ==
    LET word == SplitFirst(SubSeq(tag_content, 2, Len(tag_content)))
    IN  IF word = <<"IndexError">> THEN word ELSE RStripGt(word)

\* the value highlight_matching_tags leaves in matching_tag; <<"IndexError">>
\* in place of a tag name is the exception its except clause catches
MatchingTagFor(txt, ms, cur) ==
    IF cur = None THEN None
    ELSE LET tag_content == group(txt, cur)
         IN  IF IsClosingTag(tag_content)
                 THEN find_opening_tag(txt, ms, ClosingTagName(tag_content), cur.start)
             ELSE IF ~IsSelfClosing(tag_content)
                 THEN IF OpeningTagName(tag_content) = <<"IndexError">> THEN None
                      ELSE find_closing_tag(txt, ms, OpeningTagName(tag_content), cur.end)
             ELSE None

Raises(txt, cur) ==
    /\ cur # None
    /\ ~IsClosingTag(group(txt, cur))
    /\ ~IsSelfClosing(group(txt, cur))
    /\ OpeningTagName(group(txt, cur)) = <<"IndexError">>

----------------------------------------------------------------------------
(* The editor: a document and a cursor offset, then the handler runs.        *)

\* folded_regions = {} of CodeFoldingManager.__init__
NoRegions == [k \in {} |-> <<0, 0>>]

NoCall == [op |-> "none", arg |-> -1, ret |-> "None", count |-> 0]

\* an editor with an empty document and a new folding manager
FoldingIdle ==
    /\ doc = <<>>
    /\ visible = <<>>
    /\ folded_regions = NoRegions
    /\ timer_active = FALSE
    /\ scanned = FALSE
    /\ last_call = NoCall
    /\ pre_fold = <<>>
    /\ edits_in_burst = 0
    /\ rescans_since_edit = 0

\* self.bookmarks = {} of setup_bookmarks
NoBookmarks == [f \in {} |-> {}]

NoBookmarkCall == [op |-> "none", ret |-> "None"]

\* a window without an editor that has a file
BookmarkIdle ==
    /\ bookmarks = NoBookmarks
    /\ file_path = ""
    /\ line_count = 0
    /\ current_line = 0
    /\ last_added = {}
    /\ bm_call = NoBookmarkCall
    /\ toggle_base = NoBookmarks
    /\ toggles = 0

\* _handle_pending_file_changes is not running
NoIter == [active |-> FALSE, rest |-> {}, used |-> 0, dialog |-> ""]

\* the watcher of _setup_fs_watcher with no path watched
WatcherIdle ==
    /\ pending_dir_changes = {}
    /\ pending_file_changes = {}
    /\ dir_change_timer = FALSE
    /\ file_change_timer = FALSE
    /\ file_iter = NoIter
    /\ change_state = <<>>
    /\ fs_call = "none"

InitTag ==
    /\ text \in Documents
    /\ cursor_pos \in 0..Len(text)
    /\ matches = <<>>
    /\ current_tag = None
    /\ matching_tag = None
    /\ pair_highlighted = FALSE
    /\ error_logged = FALSE
    /\ ran = FALSE
    /\ FoldingIdle
    /\ BookmarkIdle
    /\ WatcherIdle

\* cursorPositionChanged -> handle_cursor_position_changed ->
\* highlight_matching_tags(editor)
highlight_matching_tags ==
    LET ms  == finditer(text)
        cur == FindCurrentTag(ms, cursor_pos)
        mt  == MatchingTagFor(text, ms, cur)
    IN  /\ ~ran
        /\ matches' = ms
        /\ current_tag' = cur
        /\ matching_tag' = mt
        /\ pair_highlighted' = (cur # None /\ mt # None /\ ~Raises(text, cur))
        /\ error_logged' = Raises(text, cur)
        /\ ran' = TRUE
        /\ UNCHANGED <<text, cursor_pos>>
        /\ UNCHANGED foldVars
        /\ UNCHANGED <<bookmarkVars, watcherVars>>

NextTag == highlight_matching_tags

SpecTag == InitTag /\ [][NextTag]_vars

----------------------------------------------------------------------------
(* The tag name of a token, as get_current_tag_context reads it:           *)
(* re.match(r'</?([a-zA-Z0-9-]+)', tag_content).                           *)

IsNameChar(c) ==
    c \notin {"<", ">", "/", " ", "\t", "\n", "=", "\""}

TagName(tag_content) ==
    LET first == IF Len(tag_content) >= 2 /\ tag_content[2] = "/" THEN 3 ELSE 2
        stops == { i \in first..Len(tag_content) : ~IsNameChar(tag_content[i]) }
        last  == IF stops = {} THEN Len(tag_content)
                 ELSE (CHOOSE i \in stops : \A j \in stops : i <= j) - 1
    IN  SubSeq(tag_content, first, last)

\* str.lower(), on the letters the documents use in upper case
Lower(c) ==
    CASE c = "A" -> "a"
      [] c = "B" -> "b"
      [] c = "H" -> "h"
      [] OTHER -> c

LowerName(tag_content) ==
    [i \in 1..Len(TagName(tag_content)) |-> Lower(TagName(tag_content)[i])]

----------------------------------------------------------------------------
(* Vocabulary of the properties.  These definitions read the state and the *)
(* text only; none of them uses the operators of the matcher.              *)

HasCurrent == ran /\ current_tag # None

CurrentContent == group(text, current_tag)

PartnerContent == group(text, matching_tag)

BeginsClosing(c) == Len(c) >= 2 /\ c[1] = "<" /\ c[2] = "/"

EndsSlashGt(c) == Len(c) >= 2 /\ c[Len(c) - 1] = "/" /\ c[Len(c)] = ">"

\* an opening tag: neither '</...' nor '.../>'
IsPlainOpening(c) == ~BeginsClosing(c) /\ ~EndsSlashGt(c)

\* the index of the tag under the cursor in the token list
CurrentIndex == CHOOSE i \in 1..Len(matches) : matches[i] = current_tag

\* <name> or </name>, name a non-empty identifier
IsSimpleTag(c) ==
    /\ TagName(c) # <<>>
    /\ \/ c = <<"<">> \o TagName(c) \o <<">">>
       \/ c = <<"<", "/">> \o TagName(c) \o <<">">>

\* the tokens nest without overlap: a closing tag closes the innermost open
\* element, and none stays open
RECURSIVE Nests(_, _, _)
Nests(contents, i, open) ==
    IF i > Len(contents) THEN open = <<>>
    ELSE IF BeginsClosing(contents[i])
         THEN /\ open # <<>>
              /\ open[Len(open)] = TagName(contents[i])
              /\ Nests(contents, i + 1, SubSeq(open, 1, Len(open) - 1))
         ELSE Nests(contents, i + 1, Append(open, TagName(contents[i])))

Covered(i) == \E k \in 1..Len(matches) : matches[k].start < i /\ i <= matches[k].end

\* every token is <name> or </name>
AllSimpleTags ==
    \A k \in 1..Len(matches) : IsSimpleTag(group(text, matches[k]))

\* a well-formed fragment: simple tags only, properly nested, and no '<' or
\* '>' in the text between them
WellFormed ==
    LET contents == [k \in 1..Len(matches) |-> group(text, matches[k])]
    IN  /\ matches # <<>>
        /\ AllSimpleTags
        /\ \A i \in 1..Len(text) : text[i] \in {"<", ">"} => Covered(i)
        /\ Nests(contents, 1, <<>>)

----------------------------------------------------------------------------
\* C1: in a well-formed fragment (elements nested without overlap, no
\* self-closing tags), whenever the cursor is in a tag the matcher finds a
\* partner, and the partner has the tag name of the tag under the cursor.
C1_WellFormedFindsPartner ==
    (HasCurrent /\ WellFormed) =>
        /\ matching_tag # None
        /\ TagName(PartnerContent) = TagName(CurrentContent)

----------------------------------------------------------------------------
\* The reference scans of the specification: a depth counter over the tokens
\* strictly after (before) the tag under the cursor, in document (reverse)
\* order, counting only tokens of the same tag name.

RECURSIVE RefForward(_, _, _)
RefForward(name, j, depth) ==
    IF j > Len(matches) THEN None
    ELSE LET c == group(text, matches[j])
         IN  IF TagName(c) # name THEN RefForward(name, j + 1, depth)
             ELSE IF IsPlainOpening(c) THEN RefForward(name, j + 1, depth + 1)
             ELSE IF BeginsClosing(c)
                  THEN IF depth = 0 THEN matches[j]
                       ELSE RefForward(name, j + 1, depth - 1)
             ELSE RefForward(name, j + 1, depth)

RECURSIVE RefBackward(_, _, _)
RefBackward(name, j, depth) ==
    IF j < 1 THEN None
    ELSE LET c == group(text, matches[j])
         IN  IF TagName(c) # name THEN RefBackward(name, j - 1, depth)
             ELSE IF BeginsClosing(c) THEN RefBackward(name, j - 1, depth + 1)
             ELSE IF IsPlainOpening(c)
                  THEN IF depth = 0 THEN matches[j]
                       ELSE RefBackward(name, j - 1, depth - 1)
             ELSE RefBackward(name, j - 1, depth)

\* C2: when the tag under the cursor is an opening tag, the partner returned
\* by find_closing_tag is the result of the reference forward scan (stated
\* for the documents whose tokens are all of the form <name> or </name>).
C2_ClosingScanIsReference ==
    (HasCurrent /\ AllSimpleTags /\ IsPlainOpening(CurrentContent)) =>
        matching_tag = RefForward(TagName(CurrentContent), CurrentIndex + 1, 0)

\* C3: when the tag under the cursor is a closing tag, the partner returned
\* by find_opening_tag is the result of the reference backward scan (stated
\* for the documents whose tokens are all of the form <name> or </name>).
C3_OpeningScanIsReference ==
    (HasCurrent /\ AllSimpleTags /\ BeginsClosing(CurrentContent)) =>
        matching_tag = RefBackward(TagName(CurrentContent), CurrentIndex - 1, 0)

----------------------------------------------------------------------------
\* C4: whenever the matcher returns a current tag and a partner, the opening
\* and the closing tag of the pair have the same name, compared without
\* case, and the opening tag ends at or before the start of the closing tag
\* (stated for the documents whose tokens are all of the form <name> or
\* </name>, well-formed or not).
C4_PairInvariant ==
    (HasCurrent /\ AllSimpleTags /\ matching_tag # None) =>
        LET opening == IF BeginsClosing(CurrentContent) THEN matching_tag ELSE current_tag
            closing == IF BeginsClosing(CurrentContent) THEN current_tag ELSE matching_tag
        IN  /\ LowerName(group(text, opening)) = LowerName(group(text, closing))
            /\ opening.end <= closing.start

----------------------------------------------------------------------------
\* C5 (as claimed): in <div><p>Hello</p></div> with the cursor at offset 5
\* the matcher returns the <p> starting at 5 and the </p> starting at 13.
C5_Scenario1AtOffset5 ==
    (ran /\ text = Scenario1 /\ cursor_pos = 5) =>
        /\ current_tag.start = 5
        /\ matching_tag.start = 13

\* C5 (amended): in <div><p>Hello</p></div> the matcher returns the pair
\* <p> [5,8) and </p> [13,17) for the cursor offsets 6, 7 and 8; at offset 5,
\* the boundary between <div> and <p>, it returns <div> [0,5) and
\* </div> [17,23).
C5_Scenario1Pairs ==
    (ran /\ text = Scenario1) =>
        /\ cursor_pos \in 6..8 =>
              /\ current_tag = [start |-> 5, end |-> 8]
              /\ matching_tag = [start |-> 13, end |-> 17]
        /\ cursor_pos = 5 =>
              /\ current_tag = [start |-> 0, end |-> 5]
              /\ matching_tag = [start |-> 17, end |-> 23]
        /\ cursor_pos \in 5..8 => pair_highlighted

C5_Witness ==
    /\ ran
    /\ text = Scenario1
    /\ cursor_pos = 6
    /\ matching_tag = [start |-> 13, end |-> 17]

----------------------------------------------------------------------------
\* C6: when the cursor offset is the end offset of one token and the start
\* offset of the next, the tag under the cursor is the token that ends
\* there, never the following token and never no tag.
C6_BoundaryTieBreak ==
    ran =>
        \A k \in 1..(Len(matches) - 1) :
            (matches[k].end = cursor_pos /\ matches[k + 1].start = cursor_pos) =>
                current_tag = matches[k]

C6_Witness ==
    /\ ran
    /\ text = Scenario1
    /\ cursor_pos = 5
    /\ current_tag = [start |-> 0, end |-> 5]

----------------------------------------------------------------------------
\* C7: in <ul><li>A</li><li>B</li></ul> with the cursor inside the first
\* <li> (offsets 5 to 8, after its '<'), the matcher returns the first <li>
\* [4,8) with the first </li> [9,14); at no offset of the first <li>,
\* boundary included, is the second <li> or the second </li> returned.
C7_Scenario2FirstPair ==
    (ran /\ text = Scenario2) =>
        /\ cursor_pos \in 5..8 =>
              /\ current_tag = [start |-> 4, end |-> 8]
              /\ matching_tag = [start |-> 9, end |-> 14]
              /\ pair_highlighted
        /\ cursor_pos \in 4..8 =>
              /\ {current_tag, matching_tag} \cap
                    {[start |-> 14, end |-> 18], [start |-> 19, end |-> 24]} = {}

C7_Witness ==
    /\ ran
    /\ text = Scenario2
    /\ cursor_pos = 6
    /\ matching_tag = [start |-> 9, end |-> 14]

----------------------------------------------------------------------------
\* C8 (as claimed): when the tag under the cursor is self-closing, be it a
\* tag that ends with '/>' or a bare <br>, the matcher returns no partner and
\* highlights no pair (stated for the documents whose tokens all have a tag
\* name).
C8_SelfClosingNoPartner ==
    (/\ HasCurrent
     /\ \A k \in 1..Len(matches) : TagName(group(text, matches[k])) # <<>>
     /\ \/ EndsSlashGt(CurrentContent)
        \/ CurrentContent = <<"<", "b", "r", ">">>) =>
        /\ matching_tag = None
        /\ ~pair_highlighted

\* C8 (amended): when the tag under the cursor ends with '/>' and does not
\* begin with '</', the matcher returns no partner and highlights no pair.
C8_SelfClosingOpeningNoPartner ==
    (HasCurrent /\ EndsSlashGt(CurrentContent) /\ ~BeginsClosing(CurrentContent)) =>
        /\ matching_tag = None
        /\ ~pair_highlighted

\* the cursor is in <p/> and a token </p/> follows later in the document
C8_Witness ==
    /\ HasCurrent
    /\ CurrentContent = <<"<", "p", "/", ">">>
    /\ \E k \in 1..Len(matches) :
          /\ matches[k].start > current_tag.end
          /\ group(text, matches[k]) = <<"<", "/", "p", "/", ">">>
    /\ matching_tag = None

----------------------------------------------------------------------------
(* The scans told by counting.  A candidate of the forward scan is a token *)
(* that starts after the end of the tag under the cursor; it is an opener  *)
(* when it begins with '<' and the searched name and does not end with     *)
(* '/>', and a closer when it is '</' name '>' and no opener.  The forward *)
(* scan runs out exactly when every closer has at most as many closers as  *)
(* openers up to and including it.  The backward scan is the mirror image. *)

SearchedName ==
    IF BeginsClosing(CurrentContent)
    THEN SubSeq(CurrentContent, 3, Len(CurrentContent) - 1)
    ELSE LET k == CHOOSE i \in 2..Len(CurrentContent) : CurrentContent[i] \notin {" ", "\t", "\n"}
             r == { i \in k..Len(CurrentContent) : CurrentContent[i] \in {" ", "\t", "\n", ">"} }
         IN  SubSeq(CurrentContent, k, (CHOOSE i \in r : \A j \in r : i <= j) - 1)

Opener(k) ==
    LET c == group(text, matches[k])
        n == <<"<">> \o SearchedName
    IN  /\ Len(c) >= Len(n)
        /\ \A i \in 1..Len(n) : c[i] = n[i]
        /\ ~EndsSlashGt(c)

CloserAfter(k) ==
    /\ group(text, matches[k]) = <<"<", "/">> \o SearchedName \o <<">">>
    /\ ~Opener(k)

CloserBefore(k) ==
    LET c == group(text, matches[k])
    IN  /\ BeginsClosing(c)
        /\ SubSeq(c, 3, Len(c) - 1) = SearchedName

OpenerBefore(k) == Opener(k) /\ ~CloserBefore(k)

After == { k \in 1..Len(matches) : matches[k].start > current_tag.end }

Before == { k \in 1..Len(matches) : matches[k].end < current_tag.start }

ForwardRunsOut ==
    \A j \in After : CloserAfter(j) =>
        Cardinality({ k \in After : k <= j /\ CloserAfter(k) })
            <= Cardinality({ k \in After : k <= j /\ Opener(k) })

BackwardRunsOut ==
    \A j \in Before : OpenerBefore(j) =>
        Cardinality({ k \in Before : k >= j /\ OpenerBefore(k) })
            <= Cardinality({ k \in Before : k >= j /\ CloserBefore(k) })

ScanRunsOut ==
    /\ HasCurrent
    /\ \/ BeginsClosing(CurrentContent) /\ BackwardRunsOut
       \/ IsPlainOpening(CurrentContent) /\ ForwardRunsOut

\* C9: when the scan of find_closing_tag or find_opening_tag runs out of
\* tokens without a same-name partner at depth zero, the result is None, no
\* exception is raised and no pair is highlighted; and a pair is highlighted
\* only when the scan did not run out.
C9_UnmatchedGivesNone ==
    /\ ~error_logged
    /\ ScanRunsOut => (matching_tag = None /\ ~pair_highlighted)
    /\ pair_highlighted => (HasCurrent /\ matching_tag # None /\ ~ScanRunsOut)

\* the scan met a closer at positive depth and then ran out
C9_Witness ==
    /\ HasCurrent
    /\ IsPlainOpening(CurrentContent)
    /\ ForwardRunsOut
    /\ \E j \in After : CloserAfter(j)
    /\ matching_tag = None

----------------------------------------------------------------------------
\* C10: the tokens are in strictly ascending order of start offset and do
\* not overlap; each has start_offset < end_offset, begins with '<', ends
\* with '>' and holds no other '>'; a '<' that is in no token is followed at
\* once by '>' or by no '>' at all (it is unclosed), so a text without '<'
\* or without '>' has no token.
C10_TokenizerInvariant ==
    ran =>
        /\ \A k \in 1..Len(matches) :
              /\ 0 <= matches[k].start
              /\ matches[k].start < matches[k].end
              /\ matches[k].end <= Len(text)
              /\ text[matches[k].start + 1] = "<"
              /\ text[matches[k].end] = ">"
              /\ \A i \in (matches[k].start + 1)..(matches[k].end - 1) : text[i] # ">"
        /\ \A k \in 1..(Len(matches) - 1) :
              /\ matches[k].start < matches[k + 1].start
              /\ matches[k].end <= matches[k + 1].start
        /\ \A i \in 1..Len(text) :
              (text[i] = "<" /\ ~Covered(i)) =>
                  \/ i = Len(text)
                  \/ text[i + 1] = ">"
                  \/ \A j \in (i + 1)..Len(text) : text[j] # ">"
        /\ ((\A i \in 1..Len(text) : text[i] # "<") => matches = <<>>)
        /\ ((\A i \in 1..Len(text) : text[i] # ">") => matches = <<>>)

\* a text with a token, a stray '>' and an unclosed '<'
C10_Witness ==
    /\ ran
    /\ Len(matches) >= 1
    /\ \E i \in 1..Len(text) : text[i] = ">" /\ ~Covered(i)
    /\ \E i \in 1..Len(text) : text[i] = "<" /\ ~Covered(i)


(***************************************************************************)
(* Code folding.  A line is its indentation (the number of leading         *)
(* whitespace characters) and its kind: "start" when its stripped text     *)
(* matches one of the fold-start patterns, "blank" when its stripped text  *)
(* is empty, "plain" otherwise.  Line l (0-based) of document d is d[l+1]. *)
(***************************************************************************)
MaxLines == 3

IndentUnit == 4

MaxLevel == 3

Line(indent, kind) == [indent |-> indent, kind |-> kind]

LineKinds ==
    { Line(0, "start"), Line(IndentUnit, "start"),
      Line(0, "plain"), Line(IndentUnit, "plain"), Line(2 * IndentUnit, "plain"),
      Line(0, "blank") }

RECURSIVE LineSeqs(_)
LineSeqs(n) ==
    IF n = 0 THEN { <<>> }
    ELSE LET shorter == LineSeqs(n - 1)
         IN  shorter \cup { Append(d, k) : d \in { x \in shorter : Len(x) = n - 1 },
                                            k \in LineKinds }

\* ten lines: an opener at indentation 0 on line 1, its body on lines 2..5
FoldScenario ==
    << Line(0, "plain"), Line(0, "start"),
       Line(IndentUnit, "plain"), Line(IndentUnit, "plain"),
       Line(IndentUnit, "plain"), Line(IndentUnit, "plain"),
       Line(0, "plain"), Line(0, "plain"), Line(0, "plain"), Line(0, "plain") >>

\* fold starts at indentation 0, 4 and 8, each nested in the one before
LevelScenario ==
    << Line(0, "start"), Line(IndentUnit, "start"), Line(2 * IndentUnit, "start"),
       Line(3 * IndentUnit, "plain"), Line(0, "plain") >>

\* fold starts at indentation 8, 4 and 0, one after the other
FlatLevelScenario ==
    << Line(2 * IndentUnit, "start"), Line(3 * IndentUnit, "plain"),
       Line(IndentUnit, "start"), Line(2 * IndentUnit, "plain"),
       Line(0, "start"), Line(IndentUnit, "plain") >>

FoldDocuments ==
    LineSeqs(MaxLines) \cup {FoldScenario, LevelScenario, FlatLevelScenario}

get_block_indent(block) == block.indent

is_fold_start(block) == block.kind = "start"

IsBlankLine(block) == block.kind = "blank"

lineCount(d) == Len(d)

\* find_fold_end with '<' for '<=': a line at the opener's own indentation
\* does not end the region
RECURSIVE fold_end_scan_strict(_, _, _)
fold_end_scan_strict(d, start_indent, l) ==
    IF l >= Len(d) THEN lineCount(d) - 1
    ELSE IF IsBlankLine(d[l + 1]) THEN fold_end_scan_strict(d, start_indent, l + 1)
    ELSE IF get_block_indent(d[l + 1]) < start_indent THEN l - 1
    ELSE fold_end_scan_strict(d, start_indent, l + 1)

find_fold_end_strict(d, start) ==
    fold_end_scan_strict(d, get_block_indent(d[start + 1]), start + 1)

\* the while loop of find_fold_end, current_block being line l
RECURSIVE fold_end_scan(_, _, _)
fold_end_scan(d, start_indent, l) ==
    IF l >= Len(d) THEN lineCount(d) - 1
    ELSE IF IsBlankLine(d[l + 1]) THEN fold_end_scan(d, start_indent, l + 1)
    ELSE IF get_block_indent(d[l + 1]) <= start_indent THEN l - 1
    ELSE fold_end_scan(d, start_indent, l + 1)

find_fold_end(d, start) ==
    fold_end_scan(d, get_block_indent(d[start + 1]), start + 1)

\* 'end_line >= block.blockNumber()': a region of no lines is stored too
IsStoredAlways(start, end_line) == end_line >= start

\* 'if end_line > block.blockNumber()' of update_fold_regions
IsStored(start, end_line) == end_line > start

\* a rescan that does not clear the table first
clear_nothing(regions) == regions

\* self.folded_regions.clear()
clear(regions) == NoRegions

\* the entries the first loop of update_fold_regions stores
ScanRegions(d) ==
    [ start \in { l \in 0..(Len(d) - 1) :
                     /\ is_fold_start(d[l + 1])
                     /\ IsStored(l, find_fold_end(d, l)) }
        |-> <<start, find_fold_end(d, start)>> ]

\* the table after the first loop: the cleared table with the entries stored
RescannedTable(old_regions, d) ==
    LET base   == clear(old_regions)
        stored == ScanRegions(d)
    IN  [ k \in DOMAIN base \cup DOMAIN stored |->
            IF k \in DOMAIN stored THEN stored[k] ELSE base[k] ]

\* block.setVisible(v) for the valid blocks start_line + 1 .. end_line
SetVisible(vis, start_line, end_line, v) ==
    [ i \in 1..Len(vis) |->
        IF i - 1 >= start_line + 1 /\ i - 1 <= end_line THEN v ELSE vis[i] ]

\* fold_block starting at findBlockByNumber(start_line): the opener is hidden too
fold_block_from_start(regions, vis, line_number) ==
    IF line_number \notin DOMAIN regions
    THEN [ret |-> FALSE, visible |-> vis]
    ELSE [ret |-> TRUE,
          visible |-> SetVisible(vis, regions[line_number][1] - 1,
                                 regions[line_number][2], FALSE)]

fold_block(regions, vis, line_number) ==
    IF line_number \notin DOMAIN regions
    THEN [ret |-> FALSE, visible |-> vis]
    ELSE [ret |-> TRUE,
          visible |-> SetVisible(vis, regions[line_number][1],
                                 regions[line_number][2], FALSE)]

unfold_block(regions, vis, line_number) ==
    IF line_number \notin DOMAIN regions
    THEN [ret |-> FALSE, visible |-> vis]
    ELSE [ret |-> TRUE,
          visible |-> SetVisible(vis, regions[line_number][1],
                                 regions[line_number][2], TRUE)]

\* isVisible() of an invalid block is true
is_block_folded(regions, vis, line_number) ==
    IF line_number \notin DOMAIN regions THEN FALSE
    ELSE LET next == regions[line_number][1] + 1
         IN  IF next + 1 \in 1..Len(vis) THEN ~vis[next + 1] ELSE FALSE

\* the second loop of update_fold_regions, from old start line l on
RECURSIVE restore_folds(_, _, _, _)
restore_folds(old_regions, regions, vis, l) ==
    IF l >= Len(vis) THEN vis
    ELSE IF l \in DOMAIN old_regions /\ l \in DOMAIN regions
         THEN restore_folds(old_regions, regions,
                            fold_block(regions, vis, l).visible, l + 1)
         ELSE restore_folds(old_regions, regions, vis, l + 1)

\* the loop of fold_level from block l on
RECURSIVE fold_level_loop(_, _, _, _, _, _)
fold_level_loop(d, regions, vis, level, l, folded_count) ==
    IF l >= Len(d) THEN [visible |-> vis, count |-> folded_count]
    ELSE IF /\ is_fold_start(d[l + 1])
            /\ get_block_indent(d[l + 1]) = level * IndentUnit
         THEN LET r == fold_block(regions, vis, l)
              IN  fold_level_loop(d, regions, r.visible, level, l + 1,
                                  IF r.ret THEN folded_count + 1 ELSE folded_count)
         ELSE fold_level_loop(d, regions, vis, level, l + 1, folded_count)

\* the loop of fold_all from block l on
RECURSIVE fold_all_loop(_, _, _, _, _)
fold_all_loop(d, regions, vis, l, folded_count) ==
    IF l >= Len(d) THEN [visible |-> vis, count |-> folded_count]
    ELSE IF is_fold_start(d[l + 1])
         THEN LET r == fold_block(regions, vis, l)
              IN  fold_all_loop(d, regions, r.visible, l + 1,
                                IF r.ret THEN folded_count + 1 ELSE folded_count)
         ELSE fold_all_loop(d, regions, vis, l + 1, folded_count)

\* the loop of unfold_all over the keys of the table, from key l on
RECURSIVE unfold_all_loop(_, _, _, _)
unfold_all_loop(regions, vis, l, unfolded_count) ==
    IF l >= Len(vis) THEN [visible |-> vis, count |-> unfolded_count]
    ELSE IF l \in DOMAIN regions
         THEN LET r == unfold_block(regions, vis, l)
              IN  unfold_all_loop(regions, r.visible, l + 1,
                                  IF r.ret THEN unfolded_count + 1 ELSE unfolded_count)
         ELSE unfold_all_loop(regions, vis, l + 1, unfolded_count)

Bool(b) == IF b THEN "True" ELSE "False"

MaxBurst == 2

MaxRescans == 2

\* a timer that is not single-shot fires again every 500 ms
Repeating == FALSE

\* update_timer.setSingleShot(True): the timer is inactive once it has fired
SingleShot == TRUE

\* the edits of the burst: the first edit after a rescan begins a new burst
CountEdit(edits, rescans) ==
    IF rescans > 0 THEN 1
    ELSE IF edits < MaxBurst THEN edits + 1 ELSE MaxBurst

Call(op, arg, ret, count) == [op |-> op, arg |-> arg, ret |-> ret, count |-> count]

\* no tag text in the editor whose folding is followed
TagIdle ==
    /\ text = <<>>
    /\ cursor_pos = 0
    /\ matches = <<>>
    /\ current_tag = None
    /\ matching_tag = None
    /\ pair_highlighted = FALSE
    /\ error_logged = FALSE
    /\ ran = TRUE

InitFold ==
    /\ doc \in FoldDocuments
    /\ visible = [i \in 1..Len(doc) |-> TRUE]
    /\ folded_regions = NoRegions
    /\ timer_active = FALSE
    /\ scanned = FALSE
    /\ last_call = NoCall
    /\ pre_fold = <<>>
    /\ edits_in_burst = 0
    /\ rescans_since_edit = 0
    /\ TagIdle
    /\ BookmarkIdle
    /\ WatcherIdle

\* textChanged of an edit that keeps every line's indentation and kind
schedule_update ==
    /\ timer_active' = TRUE
    /\ edits_in_burst' = CountEdit(edits_in_burst, rescans_since_edit)
    /\ rescans_since_edit' = 0
    /\ last_call' = Call("schedule_update", -1, "None", 0)
    /\ pre_fold' = <<>>
    /\ UNCHANGED <<doc, visible, folded_regions, scanned>>
    /\ UNCHANGED <<tagVars, bookmarkVars, watcherVars>>

\* the timeout of update_timer
update_fold_regions ==
    /\ timer_active
    /\ rescans_since_edit < MaxRescans
    /\ timer_active' = ~SingleShot
    /\ rescans_since_edit' = rescans_since_edit + 1
    /\ UNCHANGED edits_in_burst
    /\ folded_regions' = RescannedTable(folded_regions, doc)
    /\ visible' = restore_folds(folded_regions,
                                RescannedTable(folded_regions, doc), visible, 0)
    /\ scanned' = TRUE
    /\ last_call' = Call("update_fold_regions", -1, "None", 0)
    /\ pre_fold' = <<>>
    /\ UNCHANGED doc
    /\ UNCHANGED <<tagVars, bookmarkVars, watcherVars>>

FoldBlock(line_number) ==
    LET r == fold_block(folded_regions, visible, line_number)
    IN  /\ visible' = r.visible
        /\ last_call' = Call("fold_block", line_number, Bool(r.ret), 0)
        /\ pre_fold' = visible
        /\ UNCHANGED <<doc, folded_regions, timer_active, scanned>>
    /\ UNCHANGED <<edits_in_burst, rescans_since_edit>>
        /\ UNCHANGED <<tagVars, bookmarkVars, watcherVars>>

UnfoldBlock(line_number) ==
    LET r == unfold_block(folded_regions, visible, line_number)
    IN  /\ visible' = r.visible
        /\ last_call' = Call("unfold_block", line_number, Bool(r.ret), 0)
        /\ pre_fold' = IF last_call.op = "fold_block" /\ last_call.arg = line_number
                       THEN pre_fold ELSE <<>>
        /\ UNCHANGED <<doc, folded_regions, timer_active, scanned>>
    /\ UNCHANGED <<edits_in_burst, rescans_since_edit>>
        /\ UNCHANGED <<tagVars, bookmarkVars, watcherVars>>

fold_level(level) ==
    LET r == fold_level_loop(doc, folded_regions, visible, level, 0, 0)
    IN  /\ visible' = r.visible
        /\ last_call' = Call("fold_level", level, "None", r.count)
        /\ pre_fold' = <<>>
        /\ UNCHANGED <<doc, folded_regions, timer_active, scanned>>
    /\ UNCHANGED <<edits_in_burst, rescans_since_edit>>
        /\ UNCHANGED <<tagVars, bookmarkVars, watcherVars>>

fold_all ==
    LET r == fold_all_loop(doc, folded_regions, visible, 0, 0)
    IN  /\ visible' = r.visible
        /\ last_call' = Call("fold_all", -1, "True", r.count)
        /\ pre_fold' = <<>>
        /\ UNCHANGED <<doc, folded_regions, timer_active, scanned>>
    /\ UNCHANGED <<edits_in_burst, rescans_since_edit>>
        /\ UNCHANGED <<tagVars, bookmarkVars, watcherVars>>

unfold_all ==
    LET r == unfold_all_loop(folded_regions, visible, 0, 0)
    IN  /\ visible' = r.visible
        /\ last_call' = Call("unfold_all", -1, "True", r.count)
        /\ pre_fold' = <<>>
        /\ UNCHANGED <<doc, folded_regions, timer_active, scanned>>
    /\ UNCHANGED <<edits_in_burst, rescans_since_edit>>
        /\ UNCHANGED <<tagVars, bookmarkVars, watcherVars>>

\* toggle_fold with the cursor on line_number; the count of the call is the
\* number of consecutive toggle_fold calls on that line (1 or 2)
toggle_fold(line_number) ==
    LET again  == /\ last_call.op = "toggle_fold"
                  /\ last_call.arg = line_number
                  /\ last_call.count = 1
        r      == IF is_block_folded(folded_regions, visible, line_number)
                  THEN unfold_block(folded_regions, visible, line_number)
                  ELSE fold_block(folded_regions, visible, line_number)
    IN  /\ IF ~is_fold_start(doc[line_number + 1])
           THEN /\ visible' = visible
                /\ last_call' = Call("toggle_fold", line_number, "False",
                                     IF again THEN 2 ELSE 1)
           ELSE /\ visible' = r.visible
                /\ last_call' = Call("toggle_fold", line_number, "True",
                                     IF again THEN 2 ELSE 1)
        /\ pre_fold' = IF again THEN pre_fold ELSE visible
        /\ UNCHANGED <<doc, folded_regions, timer_active, scanned>>
        /\ UNCHANGED <<edits_in_burst, rescans_since_edit>>
        /\ UNCHANGED <<tagVars, bookmarkVars, watcherVars>>

NextFold ==
    \/ schedule_update
    \/ update_fold_regions
    \/ \E l \in 0..(Len(doc) - 1) : FoldBlock(l)
    \/ \E l \in 0..(Len(doc) - 1) : UnfoldBlock(l)
    \/ \E level \in 1..MaxLevel : fold_level(level)
    \/ fold_all
    \/ unfold_all
    \/ \E l \in 0..(Len(doc) - 1) : toggle_fold(l)

SpecFold == InitFold /\ [][NextFold]_vars

\* an edit that rewrites line l in place: the number of blocks and their
\* visibility stay, textChanged restarts the timer
EditLine(l, block) ==
    /\ doc[l + 1] # block
    /\ doc' = [doc EXCEPT ![l + 1] = block]
    /\ timer_active' = TRUE
    /\ edits_in_burst' = CountEdit(edits_in_burst, rescans_since_edit)
    /\ rescans_since_edit' = 0
    /\ last_call' = Call("edit", l, "None", 0)
    /\ pre_fold' = <<>>
    /\ UNCHANGED <<visible, folded_regions, scanned>>
    /\ UNCHANGED <<tagVars, bookmarkVars, watcherVars>>

InitEdit ==
    /\ InitFold
    /\ Len(doc) <= MaxLines

NextEdit ==
    \/ NextFold
    \/ \E l \in 0..(Len(doc) - 1) : \E block \in LineKinds : EditLine(l, block)

SpecEdit == InitEdit /\ [][NextEdit]_vars

MaxRescanLines == 2

RescanKinds == { Line(0, "start"), Line(0, "plain"), Line(IndentUnit, "plain") }

InitRescan ==
    /\ InitFold
    /\ Len(doc) <= MaxRescanLines
    /\ \A i \in 1..Len(doc) : doc[i] \in RescanKinds

NextRescan ==
    \/ schedule_update
    \/ update_fold_regions
    \/ \E l \in 0..(Len(doc) - 1) : FoldBlock(l)
    \/ \E l \in 0..(Len(doc) - 1) : \E block \in RescanKinds : EditLine(l, block)

\* edits, folds and rescans of short documents; the event loop delivers the
\* timeout of a running update_timer
SpecRescan == InitRescan /\ [][NextRescan]_vars /\ WF_vars(update_fold_regions)



(***************************************************************************)
(* The folding claims.  Their vocabulary reads the lines of the document   *)
(* and the blocks' visibility directly.                                    *)
(***************************************************************************)
FoldStarts(d) == { l \in 0..(Len(d) - 1) : d[l + 1].kind = "start" }

\* the non-blank lines after s indented no deeper than s
EndersAfter(d, s) ==
    { j \in (s + 1)..(Len(d) - 1) :
        d[j + 1].kind # "blank" /\ d[j + 1].indent <= d[s + 1].indent }

FirstOf(S) == CHOOSE j \in S : \A k \in S : j <= k

\* the line before the first ender, or the last line of the document
RegionEnd(d, s) ==
    IF EndersAfter(d, s) = {} THEN Len(d) - 1 ELSE FirstOf(EndersAfter(d, s)) - 1

Hidden == { l \in 0..(Len(visible) - 1) : ~visible[l + 1] }

\* C11: for every fold-start line s of every document, find_fold_end returns
\* the number of the line before the first non-blank line after s indented
\* no deeper than s (blank lines never end the region), and the number of the
\* last line when there is no such line; the table the rescan builds with it
\* holds that end.
C11_FoldEndContract ==
    scanned =>
        \A s \in FoldStarts(doc) :
            /\ find_fold_end(doc, s) = RegionEnd(doc, s)
            /\ s \in DOMAIN folded_regions
                   => folded_regions[s] = <<s, RegionEnd(doc, s)>>

\* a rescanned document with a blank line inside a region that a later line ends
C11_Witness ==
    /\ scanned
    /\ \E s \in DOMAIN folded_regions :
          /\ folded_regions[s][2] < Len(doc) - 1
          /\ \E b \in (s + 1)..folded_regions[s][2] : doc[b + 1].kind = "blank"

\* C12: after every update_fold_regions each entry of the table is keyed by
\* its own start_line and has end_line > start_line; a fold start whose end
\* equals its start line is not stored.
C12_TableInvariant ==
    scanned =>
        /\ \A k \in DOMAIN folded_regions :
              /\ folded_regions[k][1] = k
              /\ folded_regions[k][2] > k
        /\ \A s \in FoldStarts(doc) :
              RegionEnd(doc, s) = s => s \notin DOMAIN folded_regions

\* a rescan that stored one fold start and dropped another whose end is itself
C12_Witness ==
    /\ last_call.op = "update_fold_regions"
    /\ folded_regions # NoRegions
    /\ \E s \in FoldStarts(doc) : RegionEnd(doc, s) = s

\* C13: in the ten-line scenario the rescan stores exactly the region (1, 5);
\* fold_block(1) then hides exactly lines 2..5 and a following unfold_block(1)
\* makes every line visible again.
C13_FoldScenario ==
    (doc = FoldScenario /\ scanned) =>
        /\ folded_regions = (1 :> <<1, 5>>)
        /\ (last_call.op = "fold_block" /\ last_call.arg = 1)
               => (last_call.ret = "True" /\ Hidden = 2..5)
        /\ (last_call.op = "unfold_block" /\ last_call.arg = 1)
               => (last_call.ret = "True" /\ Hidden = {})

\* the scenario after fold_block(1) from all lines visible, then unfold_block(1)
C13_Witness ==
    /\ doc = FoldScenario
    /\ scanned
    /\ last_call.op = "unfold_block"
    /\ last_call.arg = 1
    /\ pre_fold = [i \in 1..Len(doc) |-> TRUE]


\* the lines start_line + 1 .. end_line of the region stored under k
RegionLines(k) == (folded_regions[k][1] + 1)..folded_regions[k][2]

\* the region stored under k counts as folded when vis hides its first line
CountsFolded(vis, k) == k \in DOMAIN folded_regions /\ ~vis[k + 2]

\* C14: fold_block(start_line) succeeds only for a known fold start that is
\* not already folded, and then hides exactly the region's lines and leaves
\* the region folded; otherwise it returns false and changes no visibility.
C14_FoldBlockContract ==
    last_call.op = "fold_block" =>
        LET l == last_call.arg
        IN  IF l \in DOMAIN folded_regions /\ ~CountsFolded(pre_fold, l)
            THEN /\ last_call.ret = "True"
                 /\ \A i \in 0..(Len(doc) - 1) :
                       visible[i + 1] = (pre_fold[i + 1] /\ i \notin RegionLines(l))
                 /\ CountsFolded(visible, l)
            ELSE /\ last_call.ret = "False"
                 /\ visible = pre_fold

\* C15: unfold_block(start_line) on a folded region shows the region's lines
\* and leaves the region not folded; on a region that is not folded it
\* returns false and changes no visibility.
C15_UnfoldBlockContract ==
    [][ \A l \in 0..(Len(doc) - 1) :
          UnfoldBlock(l) =>
              IF CountsFolded(visible, l)
              THEN /\ last_call'.ret = "True"
                   /\ \A i \in RegionLines(l) : visible'[i + 1]
                   /\ ~CountsFolded(visible', l)
              ELSE /\ last_call'.ret = "False"
                   /\ visible' = visible ]_vars

\* C16: folding a region that is not folded and unfolding it at once leaves
\* the visibility of every line as it was before the fold, whatever was
\* folded inside it.
C16_FoldUnfoldRoundTrip ==
    ( /\ last_call.op = "unfold_block"
      /\ last_call.arg \in DOMAIN folded_regions
      /\ pre_fold # <<>>
      /\ ~CountsFolded(pre_fold, last_call.arg) )
        => visible = pre_fold

\* C17: every region that counts as folded has all of its lines hidden.
C17_FoldedRegionHidden ==
    \A k \in DOMAIN folded_regions :
        CountsFolded(visible, k) => \A i \in RegionLines(k) : ~visible[i + 1]

\* C18: fold_level(n) leaves folded every region whose fold start is
\* indented n * 4 and leaves every other region as it was, folded or not.
C18_FoldLevelFrame ==
    [][ \A level \in 1..MaxLevel :
          fold_level(level) =>
              \A k \in DOMAIN folded_regions :
                  IF doc[k + 1].indent = level * IndentUnit
                  THEN CountsFolded(visible', k)
                  ELSE CountsFolded(visible', k) = CountsFolded(visible, k) ]_vars

\* C19: the count fold_all (unfold_all) reports is the number of regions
\* the call changed from not folded to folded (from folded to not folded).
C19_CountsChangedRegions ==
    [][ /\ fold_all =>
            last_call'.count =
                Cardinality({ k \in DOMAIN folded_regions :
                                ~CountsFolded(visible, k) /\ CountsFolded(visible', k) })
        /\ unfold_all =>
            last_call'.count =
                Cardinality({ k \in DOMAIN folded_regions :
                                CountsFolded(visible, k) /\ ~CountsFolded(visible', k) })
      ]_vars


\* C20: after an edit and the rescan that follows it, every hidden line lies
\* in a region of the new table that counts as folded.
C20_NoStaleHiddenLines ==
    last_call.op = "update_fold_regions" =>
        \A h \in Hidden :
            \E k \in DOMAIN folded_regions :
                CountsFolded(visible, k) /\ h \in RegionLines(k)


\* C21: at most one rescan is pending: every edit event restarts the
\* single-shot timer, so while the timer runs no rescan has followed the last
\* edit, and once it has fired exactly one update_fold_regions has run since
\* the last edit of the burst, however many edits the burst had.
C21_OneRescanPerBurst ==
    /\ rescans_since_edit <= 1
    /\ timer_active => rescans_since_edit = 0
    /\ (~timer_active /\ edits_in_burst > 0) => rescans_since_edit = 1

\* a burst of at least two edit events followed by its one rescan
C21_Witness ==
    /\ last_call.op = "update_fold_regions"
    /\ edits_in_burst >= 2
    /\ rescans_since_edit = 1
    /\ ~timer_active


(***************************************************************************)
(* Bookmarks.  The window keeps a dictionary from file path to the set of  *)
(* bookmarked line numbers (0-based block numbers); the current editor has *)
(* a file, a document of line_count blocks and a cursor line.              *)
(***************************************************************************)
MaxBookmarkLine == 2

Files == {"a.py", "b.py"}

BookmarkLines == 0..MaxBookmarkLine

is_line_bookmarked(bm, f, l) == f \in DOMAIN bm /\ l \in bm[f]

add_bookmark(bm, f, l) ==
    [ g \in DOMAIN bm \cup {f} |->
        IF g = f THEN (IF f \in DOMAIN bm THEN bm[f] ELSE {}) \cup {l}
        ELSE bm[g] ]

\* remove_bookmark without the 'del': the file keeps an empty set
remove_bookmark_keep_empty(bm, f, l) ==
    IF f \notin DOMAIN bm THEN bm ELSE [bm EXCEPT ![f] = bm[f] \ {l}]

remove_bookmark(bm, f, l) ==
    IF f \notin DOMAIN bm THEN bm
    ELSE IF bm[f] \ {l} = {} THEN [ g \in DOMAIN bm \ {f} |-> bm[g] ]
    ELSE [bm EXCEPT ![f] = bm[f] \ {l}]

\* self.bookmarks.get(editor.file_path, set())
FileBookmarks(bm, f) == IF f \in DOMAIN bm THEN bm[f] ELSE {}

Smallest(S) == CHOOSE l \in S : \A k \in S : l <= k

Largest(S) == CHOOSE l \in S : \A k \in S : l >= k

\* the first line of sorted(bookmarks) beyond the cursor, else min(bookmarks)
NextCandidate(lines, cur) ==
    IF { l \in lines : l > cur } # {} THEN Smallest({ l \in lines : l > cur })
    ELSE Smallest(lines)

\* the first line of sorted(bookmarks, reverse=True) before the cursor,
\* else max(bookmarks)
PrevCandidate(lines, cur) ==
    IF { l \in lines : l < cur } # {} THEN Largest({ l \in lines : l < cur })
    ELSE Largest(lines)

\* the cursor line after goto_line: an invalid block leaves the cursor alone
goto_line(count, cur, line_number) ==
    IF line_number \in 0..(count - 1) THEN line_number ELSE cur

BookmarkCall(op, ret) == [op |-> op, ret |-> ret]

InitBookmark ==
    /\ bookmarks = NoBookmarks
    /\ file_path \in Files
    /\ line_count \in 1..(MaxBookmarkLine + 1)
    /\ current_line = 0
    /\ last_added = {}
    /\ bm_call = NoBookmarkCall
    /\ toggle_base = NoBookmarks
    /\ toggles = 0
    /\ TagIdle
    /\ FoldingIdle
    /\ WatcherIdle

AddBookmark(f, l) ==
    /\ bookmarks' = add_bookmark(bookmarks, f, l)
    /\ last_added' = last_added \cup {<<f, l>>}
    /\ bm_call' = BookmarkCall("add_bookmark", "None")
    /\ toggle_base' = NoBookmarks
    /\ toggles' = 0
    /\ UNCHANGED <<file_path, line_count, current_line>>
    /\ UNCHANGED <<tagVars, foldVars, watcherVars>>

RemoveBookmark(f, l) ==
    /\ bookmarks' = remove_bookmark(bookmarks, f, l)
    /\ last_added' = last_added \ {<<f, l>>}
    /\ bm_call' = BookmarkCall("remove_bookmark", "None")
    /\ toggle_base' = NoBookmarks
    /\ toggles' = 0
    /\ UNCHANGED <<file_path, line_count, current_line>>
    /\ UNCHANGED <<tagVars, foldVars, watcherVars>>

toggle_bookmark ==
    /\ IF is_line_bookmarked(bookmarks, file_path, current_line)
       THEN /\ bookmarks' = remove_bookmark(bookmarks, file_path, current_line)
            /\ last_added' = last_added \ {<<file_path, current_line>>}
       ELSE /\ bookmarks' = add_bookmark(bookmarks, file_path, current_line)
            /\ last_added' = last_added \cup {<<file_path, current_line>>}
    /\ bm_call' = BookmarkCall("toggle_bookmark", "None")
    /\ toggle_base' = IF toggles = 1 THEN toggle_base ELSE bookmarks
    /\ toggles' = IF toggles = 1 THEN 2 ELSE 1
    /\ UNCHANGED <<file_path, line_count, current_line>>
    /\ UNCHANGED <<tagVars, foldVars, watcherVars>>

next_bookmark ==
    LET lines == FileBookmarks(bookmarks, file_path)
    IN  /\ IF lines = {}
           THEN /\ bm_call' = BookmarkCall("next_bookmark", "False")
                /\ UNCHANGED current_line
           ELSE /\ bm_call' = BookmarkCall("next_bookmark", "True")
                /\ current_line' = goto_line(line_count, current_line,
                                             NextCandidate(lines, current_line))
        /\ toggle_base' = NoBookmarks
        /\ toggles' = 0
        /\ UNCHANGED <<bookmarks, file_path, line_count, last_added>>
        /\ UNCHANGED <<tagVars, foldVars, watcherVars>>

previous_bookmark ==
    LET lines == FileBookmarks(bookmarks, file_path)
    IN  /\ IF lines = {}
           THEN /\ bm_call' = BookmarkCall("previous_bookmark", "False")
                /\ UNCHANGED current_line
           ELSE /\ bm_call' = BookmarkCall("previous_bookmark", "True")
                /\ current_line' = goto_line(line_count, current_line,
                                             PrevCandidate(lines, current_line))
        /\ toggle_base' = NoBookmarks
        /\ toggles' = 0
        /\ UNCHANGED <<bookmarks, file_path, line_count, last_added>>
        /\ UNCHANGED <<tagVars, foldVars, watcherVars>>

\* the user puts the cursor on another line
MoveCursor(l) ==
    /\ l # current_line
    /\ current_line' = l
    /\ bm_call' = BookmarkCall("cursor", "None")
    /\ toggle_base' = NoBookmarks
    /\ toggles' = 0
    /\ UNCHANGED <<bookmarks, file_path, line_count, last_added>>
    /\ UNCHANGED <<tagVars, foldVars, watcherVars>>

\* the last line of the document is deleted; the bookmarks are not adjusted
DeleteLastLine ==
    /\ line_count > 1
    /\ line_count' = line_count - 1
    /\ current_line' = IF current_line > line_count - 2 THEN line_count - 2
                       ELSE current_line
    /\ bm_call' = BookmarkCall("edit", "None")
    /\ toggle_base' = NoBookmarks
    /\ toggles' = 0
    /\ UNCHANGED <<bookmarks, file_path, last_added>>
    /\ UNCHANGED <<tagVars, foldVars, watcherVars>>

\* a line is appended to the document
AppendLine ==
    /\ line_count <= MaxBookmarkLine
    /\ line_count' = line_count + 1
    /\ bm_call' = BookmarkCall("edit", "None")
    /\ toggle_base' = NoBookmarks
    /\ toggles' = 0
    /\ UNCHANGED <<bookmarks, file_path, current_line, last_added>>
    /\ UNCHANGED <<tagVars, foldVars, watcherVars>>

NextBookmark ==
    \/ \E f \in Files : \E l \in BookmarkLines : AddBookmark(f, l)
    \/ \E f \in Files : \E l \in BookmarkLines : RemoveBookmark(f, l)
    \/ toggle_bookmark
    \/ next_bookmark
    \/ previous_bookmark
    \/ \E l \in 0..(line_count - 1) : MoveCursor(l)
    \/ DeleteLastLine
    \/ AppendLine

SpecBookmark == InitBookmark /\ [][NextBookmark]_vars

\* the bookmarked lines of the current file that are lines of the document
ValidBookmarks == { l \in FileBookmarks(bookmarks, file_path) : l < line_count }

\* C22: with stale line numbers in the current file's bookmark set,
\* next_bookmark and previous_bookmark still move the cursor: whenever a
\* valid bookmarked line other than the cursor line exists, the call puts
\* the cursor on another valid bookmarked line.
C22_StaleBookmarksSkipped ==
    [][ (next_bookmark \/ previous_bookmark) =>
            (ValidBookmarks \ {current_line} # {} =>
                 /\ current_line' # current_line
                 /\ current_line' \in ValidBookmarks) ]_vars

\* C29: no file is mapped to an empty set, a line is bookmarked exactly when
\* the last operation on it added it, and two consecutive toggle_bookmark
\* calls at the same cursor leave the dictionary as it was.
C29_BookmarkMapInvariant ==
    /\ \A f \in DOMAIN bookmarks : bookmarks[f] # {}
    /\ \A f \in Files : \A l \in BookmarkLines :
          (f \in DOMAIN bookmarks /\ l \in bookmarks[f]) <=> (<<f, l>> \in last_added)
    /\ toggles = 2 => bookmarks = toggle_base

\* two toggles at the cursor that created and deleted the current file's set
\* while the other file keeps a bookmark
C29_Witness ==
    /\ toggles = 2
    /\ bm_call.op = "toggle_bookmark"
    /\ file_path \notin DOMAIN bookmarks
    /\ bookmarks # NoBookmarks
    /\ bookmarks = toggle_base


(***************************************************************************)
(* Further claims about the tag matcher.                                   *)
(***************************************************************************)
\* C23: a token that starts exactly where the tag under the cursor ends, or
\* ends exactly where it starts, is scanned: in <p></p> the cursor inside
\* <p> yields </p> and the cursor inside </p> yields <p>.
C23_AdjacentTokenScanned ==
    (ran /\ text = Scenario6) =>
        /\ cursor_pos \in 0..3 => matching_tag = [start |-> 3, end |-> 7]
        /\ cursor_pos \in 4..7 => matching_tag = [start |-> 0, end |-> 3]

\* the tokens after (before) the tag under the cursor that bear its name
SameNameAfter ==
    { k \in (CurrentIndex + 1)..Len(matches) :
        TagName(group(text, matches[k])) = TagName(CurrentContent) }

SameNameBefore ==
    { k \in 1..(CurrentIndex - 1) :
        TagName(group(text, matches[k])) = TagName(CurrentContent) }

\* C24: tokens of another name are ignored, also when their name begins with
\* the searched name: if the first token after an opening tag that bears its
\* name is a closing tag, that token is the partner, and if the last token
\* before a closing tag that bears its name is an opening tag, that token is
\* the partner (tokens touching the current tag left aside).
C24_OtherNamesIgnored ==
    (HasCurrent /\ AllSimpleTags) =>
        /\ ( /\ IsPlainOpening(CurrentContent)
             /\ SameNameAfter # {}
             /\ BeginsClosing(group(text, matches[Smallest(SameNameAfter)]))
             /\ \A k \in (CurrentIndex + 1)..Len(matches) :
                    matches[k].start > current_tag.end )
               => matching_tag = matches[Smallest(SameNameAfter)]
        /\ ( /\ BeginsClosing(CurrentContent)
             /\ SameNameBefore # {}
             /\ ~BeginsClosing(group(text, matches[Largest(SameNameBefore)]))
             /\ \A k \in 1..(CurrentIndex - 1) :
                    matches[k].end < current_tag.start )
               => matching_tag = matches[Largest(SameNameBefore)]


(***************************************************************************)
(* Further folding claims.                                                 *)
(***************************************************************************)
\* C25: a rescan restores the folded state and nothing more: a region of the
\* new table counts as folded afterwards exactly when it was in the table
\* and folded before, and with the document unchanged no line's visibility
\* changes.
C25_RescanRestoresOnly ==
    [][ update_fold_regions =>
            /\ visible' = visible
            /\ \A k \in DOMAIN folded_regions' :
                  (~visible'[k + 2]) = CountsFolded(visible, k) ]_vars

\* the table the fold detector gives for document d alone
DetectedTable(d) ==
    [ s \in { l \in FoldStarts(d) : RegionEnd(d, l) > l } |-> <<s, RegionEnd(d, s)>> ]

\* C26: once an edit has started the timer, a rescan eventually runs, and
\* the table it leaves is the one the fold detector computes from the
\* current document alone.
C26_RescanEventuallyFresh ==
    timer_active ~>
        ( /\ last_call.op = "update_fold_regions"
          /\ ~timer_active
          /\ folded_regions = DetectedTable(doc) )

\* a rescan after an edit that changed the regions of the document
C26_Witness ==
    /\ last_call.op = "update_fold_regions"
    /\ edits_in_burst >= 2
    /\ folded_regions = DetectedTable(doc)
    /\ folded_regions # NoRegions
    /\ Hidden # {}

\* C27: toggle_fold on a line that is no fold start returns False and changes
\* nothing; on a fold start it unfolds a folded region and folds any other,
\* returns True only if that fold or unfold succeeded, and two consecutive
\* calls on the same line restore the visibility of every line.
C27_ToggleFoldContract ==
    last_call.op = "toggle_fold" =>
        LET l == last_call.arg
        IN  /\ doc[l + 1].kind # "start" => last_call.ret = "False"
            /\ (doc[l + 1].kind # "start" /\ last_call.count = 1)
                   => visible = pre_fold
            /\ last_call.ret = "True" => l \in DOMAIN folded_regions
            /\ (l \in DOMAIN folded_regions /\ doc[l + 1].kind = "start"
                    /\ last_call.count = 1)
                   => CountsFolded(visible, l) = ~CountsFolded(pre_fold, l)
            /\ last_call.count = 2 => visible = pre_fold

\* C28: after unfold_all no line of the document is hidden.
C28_UnfoldAllShowsAll ==
    last_call.op = "unfold_all" => Hidden = {}

\* ------------------------------------------------------------------------
\* The debounced file-system watcher (_setup_fs_watcher and its handlers)
\* ------------------------------------------------------------------------

\* the paths the watcher reports
Paths == {"a", "b"}

\* the two queues of _setup_fs_watcher: directories and files
Kinds == {"dir", "file"}

\* nothing is known about any path: no change was queued
NoChanges == [k \in Kinds \X Paths |-> "none"]

\* _queue_directory_change / _queue_file_change ran for a path
OnQueue(s) == "queued"

\* handle_fs_change / handle_file_change is called for a path: the first call
\* since it was queued handles it, a further call handles it a second time
OnHandle(s) ==
    IF s = "queued" THEN "handled"
    ELSE IF s = "handled" THEN "twice"
    ELSE s

\* the handler that called clear() has returned: the handled changes are done
OnReturn(s) == IF s = "handled" THEN "none" ELSE s

\* the change_state after every path of the set was passed to its handler
\* and the queue was cleared
HandleAll(state, kind, paths) ==
    [k \in Kinds \X Paths |->
        IF k[1] = kind /\ k[2] \in paths
        THEN OnReturn(OnHandle(state[k]))
        ELSE IF k[1] = kind THEN OnReturn(state[k]) ELSE state[k]]

\* the event loop delivers signals and timeouts: at top level, or inside the
\* nested loop of dialog.exec() in show_conflict_resolution_dialog
EventLoopRuns == ~file_iter.active \/ file_iter.dialog # ""

InitWatcher ==
    /\ pending_dir_changes = {}
    /\ pending_file_changes = {}
    /\ dir_change_timer = FALSE
    /\ file_change_timer = FALSE
    /\ file_iter = NoIter
    /\ change_state = NoChanges
    /\ fs_call = "_setup_fs_watcher"
    /\ TagIdle
    /\ FoldingIdle
    /\ BookmarkIdle

\* _queue_directory_change(path): add the path, (re)start the 100 ms timer
_queue_directory_change(path) ==
    /\ EventLoopRuns
    /\ pending_dir_changes' = pending_dir_changes \cup {path}
    /\ dir_change_timer' = TRUE
    /\ change_state' = [change_state EXCEPT ![<<"dir", path>>] = OnQueue(@)]
    /\ fs_call' = "_queue_directory_change"
    /\ UNCHANGED <<pending_file_changes, file_change_timer, file_iter>>
    /\ UNCHANGED <<tagVars, foldVars, bookmarkVars>>

\* _queue_file_change(path): add the path, (re)start the 100 ms timer
_queue_file_change(path) ==
    /\ EventLoopRuns
    /\ pending_file_changes' = pending_file_changes \cup {path}
    /\ file_change_timer' = TRUE
    /\ change_state' = [change_state EXCEPT ![<<"file", path>>] = OnQueue(@)]
    /\ fs_call' = "_queue_file_change"
    /\ UNCHANGED <<pending_dir_changes, dir_change_timer, file_iter>>
    /\ UNCHANGED <<tagVars, foldVars, bookmarkVars>>

\* the timeout of dir_change_timer: handle_fs_change opens no dialog, so the
\* loop and the clear() run without any other event in between
_handle_pending_dir_changes ==
    /\ dir_change_timer
    /\ EventLoopRuns
    /\ dir_change_timer' = FALSE
    /\ change_state' = HandleAll(change_state, "dir", pending_dir_changes)
    /\ pending_dir_changes' = {}
    /\ fs_call' = "_handle_pending_dir_changes"
    /\ UNCHANGED <<pending_file_changes, file_change_timer, file_iter>>
    /\ UNCHANGED <<tagVars, foldVars, bookmarkVars>>

\* the timeout of file_change_timer at top level: _handle_pending_file_changes
\* creates the iterator of its for loop, which remembers the size of the set
BeginFileChanges ==
    /\ file_change_timer
    /\ ~file_iter.active
    /\ file_change_timer' = FALSE
    /\ file_iter' = [active |-> TRUE, rest |-> pending_file_changes,
                     used |-> Cardinality(pending_file_changes),
                     dialog |-> ""]
    /\ fs_call' = "timeout"
    /\ UNCHANGED <<pending_dir_changes, pending_file_changes,
                   dir_change_timer, change_state>>
    /\ UNCHANGED <<tagVars, foldVars, bookmarkVars>>

\* one round of the for loop: the iterator yields a path (in the order of the
\* set, which is not fixed) and handle_file_change(path) is called; conflict
\* says whether the file is modified both on disk and in the editor, in
\* which case the modal dialog opens
handle_file_change(path, conflict) ==
    /\ file_iter.active
    /\ file_iter.dialog = ""
    /\ Cardinality(pending_file_changes) = file_iter.used
    /\ path \in file_iter.rest
    /\ change_state' = [change_state EXCEPT ![<<"file", path>>] = OnHandle(@)]
    /\ file_iter' = [file_iter EXCEPT !.rest = @ \ {path},
                                      !.dialog = IF conflict THEN path ELSE ""]
    /\ fs_call' = "handle_file_change"
    /\ UNCHANGED <<pending_dir_changes, pending_file_changes,
                   dir_change_timer, file_change_timer>>
    /\ UNCHANGED <<tagVars, foldVars, bookmarkVars>>

\* the user answers the dialog: dialog.exec() returns and handle_file_change
\* runs to its end
show_conflict_resolution_dialog ==
    /\ file_iter.active
    /\ file_iter.dialog # ""
    /\ file_iter' = [file_iter EXCEPT !.dialog = ""]
    /\ fs_call' = "show_conflict_resolution_dialog"
    /\ UNCHANGED <<pending_dir_changes, pending_file_changes,
                   dir_change_timer, file_change_timer, change_state>>
    /\ UNCHANGED <<tagVars, foldVars, bookmarkVars>>

\* the end of _handle_pending_file_changes: the iterator is asked for the
\* next path; if the size of the set changed it raises RuntimeError, which
\* the except clause logs, and clear() is skipped; otherwise, once every
\* path was yielded, the set is cleared
_handle_pending_file_changes ==
    /\ file_iter.active
    /\ file_iter.dialog = ""
    /\ \/ Cardinality(pending_file_changes) # file_iter.used
       \/ file_iter.rest = {}
    /\ IF Cardinality(pending_file_changes) # file_iter.used
       THEN /\ pending_file_changes' = pending_file_changes
            /\ change_state' = change_state
       ELSE /\ pending_file_changes' = {}
            /\ change_state' = HandleAll(change_state, "file", {})
    /\ file_iter' = NoIter
    /\ fs_call' = "_handle_pending_file_changes"
    /\ UNCHANGED <<pending_dir_changes, dir_change_timer, file_change_timer>>
    /\ UNCHANGED <<tagVars, foldVars, bookmarkVars>>

NextWatcher ==
    \/ \E path \in Paths : _queue_directory_change(path)
    \/ \E path \in Paths : _queue_file_change(path)
    \/ _handle_pending_dir_changes
    \/ BeginFileChanges
    \/ \E path \in Paths, conflict \in BOOLEAN :
           handle_file_change(path, conflict)
    \/ show_conflict_resolution_dialog
    \/ _handle_pending_file_changes

SpecWatcher == InitWatcher /\ [][NextWatcher]_vars

\* the pending set and the timer of a kind
PendingOf(kind) ==
    IF kind = "dir" THEN pending_dir_changes ELSE pending_file_changes

TimerOf(kind) ==
    IF kind = "dir" THEN dir_change_timer ELSE file_change_timer

\* C30: every queued path is handled exactly once by the next expiry however
\* often it was queued, the pending set is empty after the handler returns,
\* and a path queued after the expiry is handled by a later one: no path is
\* handled twice for one queued change, a queued path is in its pending set
\* with the timer running or the handler at work, and after
\* _handle_pending_dir_changes / _handle_pending_file_changes returns its
\* set is empty.
C30_QueuedChangesHandledOnce ==
    /\ \A k \in Kinds \X Paths :
          /\ change_state[k] # "twice"
          /\ change_state[k] = "queued" =>
                /\ k[2] \in PendingOf(k[1])
                /\ TimerOf(k[1]) \/ (k[1] = "file" /\ file_iter.active)
    /\ fs_call = "_handle_pending_dir_changes" => pending_dir_changes = {}
    /\ fs_call = "_handle_pending_file_changes" => pending_file_changes = {}

\* ------------------------------------------------------------------------
\* The whole program
\* ------------------------------------------------------------------------

Init == InitTag \/ InitFold \/ InitBookmark \/ InitWatcher

Next == NextTag \/ NextEdit \/ NextBookmark \/ NextWatcher

Spec == Init /\ [][Next]_vars

====
